---------------------------- MODULE Spec2Model ----------------------------
(***************************************************************************)
(* Ray tracing of a sonar ping through a sound velocity profile:           *)
(* Raytracing::rayTrace and Raytracing::planarRayTrace of                  *)
(* src/src/georeferencing/Raytracing.hpp.                                  *)
(*                                                                         *)
(* A C++ double is modelled as a fixed-point number with Scale ticks per   *)
(* unit, or one of the IEEE-754 values NaN, +Infinity, -Infinity.  Every   *)
(* arithmetic operation of the source goes through the F* operators below, *)
(* which round to the nearest tick and follow the IEEE rules for the       *)
(* non-finite values (sqrt of a negative is NaN, x/0 is an infinity,       *)
(* 0*Infinity is NaN, every comparison with NaN is false).                 *)
(*                                                                         *)
(* abs() in the source is taken to be the floating-point overload.         *)
(***************************************************************************)
EXTENDS Integers, Sequences, FiniteSets, TLC

\* ------------------------------------------------------------------------
\* Bounds of the model
\* ------------------------------------------------------------------------

\* ticks per unit of the fixed-point model of a double
Scale == 100

\* number of terms of the series that computes the natural logarithm
LogTerms == 4

\* the profile holds between 1 and MaxSamples samples
MaxSamples == 3

\* the two way travel time is k half-units, k in 0..MaxTimeSteps
MaxTimeSteps == 8

\* ------------------------------------------------------------------------
\* Doubles
\* ------------------------------------------------------------------------

F(n) == [k |-> "fin", v |-> n]

NaN == [k |-> "nan", v |-> 0]

PInf == [k |-> "inf", v |-> 1]

NInf == [k |-> "inf", v |-> -1]

IsFin(a) == a.k = "fin"

IsNaN(a) == a.k = "nan"

IsInf(a) == a.k = "inf"

Sign(n) == IF n > 0 THEN 1 ELSE IF n < 0 THEN -1 ELSE 0

AbsInt(n) == IF n < 0 THEN -n ELSE n

\* a/b rounded to the nearest integer, b > 0
RDiv(a, b) ==
    IF a >= 0 THEN (2 * a + b) \div (2 * b)
    ELSE -((2 * (-a) + b) \div (2 * b))

\* the double nearest to the rational a/b
Frac(a, b) == F(RDiv(a * Scale, b))

\* the double of an integer
D(n) == F(n * Scale)

Zero == F(0)

One == F(Scale)

FNeg(a) ==
    IF IsFin(a) THEN F(-a.v)
    ELSE IF IsInf(a) THEN [k |-> "inf", v |-> -a.v]
    ELSE NaN

FAbs(a) ==
    IF IsFin(a) THEN F(AbsInt(a.v))
    ELSE IF IsInf(a) THEN PInf
    ELSE NaN

FAdd(a, b) ==
    IF IsNaN(a) \/ IsNaN(b) THEN NaN
    ELSE IF IsInf(a) /\ IsInf(b) THEN (IF a.v = b.v THEN a ELSE NaN)
    ELSE IF IsInf(a) THEN a
    ELSE IF IsInf(b) THEN b
    ELSE F(a.v + b.v)

FSub(a, b) == FAdd(a, FNeg(b))

FMul(a, b) ==
    IF IsNaN(a) \/ IsNaN(b) THEN NaN
    ELSE IF IsInf(a) \/ IsInf(b)
         THEN (IF Sign(a.v) * Sign(b.v) = 0 THEN NaN
               ELSE [k |-> "inf", v |-> Sign(a.v) * Sign(b.v)])
    ELSE F(RDiv(a.v * b.v, Scale))

FDiv(a, b) ==
    IF IsNaN(a) \/ IsNaN(b) THEN NaN
    ELSE IF IsInf(a) /\ IsInf(b) THEN NaN
    ELSE IF IsInf(a) THEN [k |-> "inf", v |-> a.v * (IF b.v < 0 THEN -1 ELSE 1)]
    ELSE IF IsInf(b) THEN Zero
    ELSE IF b.v = 0
         THEN (IF a.v = 0 THEN NaN ELSE [k |-> "inf", v |-> Sign(a.v)])
    ELSE F(Sign(a.v) * Sign(b.v) * RDiv(AbsInt(a.v) * Scale, AbsInt(b.v)))

\* a <= b; false when either is NaN
FLe(a, b) ==
    IF IsNaN(a) \/ IsNaN(b) THEN FALSE
    ELSE IF IsInf(a) THEN (a.v < 0 \/ (IsInf(b) /\ b.v > 0))
    ELSE IF IsInf(b) THEN b.v > 0
    ELSE a.v <= b.v

\* a < b; false when either is NaN
FLt(a, b) ==
    IF IsNaN(a) \/ IsNaN(b) THEN FALSE
    ELSE IF IsInf(a) THEN (a.v < 0 /\ ~(IsInf(b) /\ b.v < 0))
    ELSE IF IsInf(b) THEN b.v > 0
    ELSE a.v < b.v

\* a == b; false when either is NaN
FEq(a, b) == ~IsNaN(a) /\ ~IsNaN(b) /\ a = b

RECURSIVE ISqrtBetween(_, _, _)
\* the largest r in lo..hi with r * r <= n, by bisection
ISqrtBetween(n, lo, hi) ==
    IF lo >= hi THEN lo
    ELSE LET mid == (lo + hi + 1) \div 2
         IN  IF mid * mid <= n THEN ISqrtBetween(n, mid, hi)
             ELSE ISqrtBetween(n, lo, mid - 1)

\* the integer nearest to the square root of n, 0 <= n < 2^30
ISqrt(n) ==
    LET r == ISqrtBetween(n, 0, 32767)
    IN  IF n - r * r > r THEN r + 1 ELSE r

\* sqrt(a)
FSqrt(a) ==
    IF IsNaN(a) THEN NaN
    ELSE IF IsInf(a) THEN (IF a.v > 0 THEN PInf ELSE NaN)
    ELSE IF a.v < 0 THEN NaN
    ELSE F(ISqrt(a.v * Scale))

\* pow(a, 2)
FPow2(a) == FMul(a, a)

RECURSIVE AtanhSeries(_, _, _, _)
\* y + y^3/3 + y^5/5 + ... : pw is y^(2k-1), the k-th term is being added
AtanhSeries(y, pw, k, acc) ==
    IF k > LogTerms THEN acc
    ELSE LET nx == RDiv(RDiv(pw * y, Scale) * y, Scale)
         IN  AtanhSeries(y, nx, k + 1, acc + RDiv(nx, 2 * k + 1))

\* log(a), by log(x) = 2 atanh((x - 1)/(x + 1))
FLog(a) ==
    IF IsNaN(a) THEN NaN
    ELSE IF IsInf(a) THEN (IF a.v > 0 THEN PInf ELSE NaN)
    ELSE IF a.v < 0 THEN NaN
    ELSE IF a.v = 0 THEN NInf
    ELSE LET y == RDiv((a.v - Scale) * Scale, a.v + Scale)
         IN  F(2 * AtanhSeries(y, y, 1, y))


\* ------------------------------------------------------------------------
\* Layer propagation formulas
\* ------------------------------------------------------------------------

\* gradient inferior to this epsilon is considered 0: 1/1000000
gradientEpsilonNum == 1

gradientEpsilonDen == 1000000

\* abs(g) < gradientEpsilon
BelowGradientEpsilon(g) ==
    LET a == FAbs(g)
    IN  IsFin(a) /\ a.v * gradientEpsilonDen < gradientEpsilonNum * Scale

constantCelerityRayTracing(z0, z1, c, snellConstant) ==
    LET cosBn == FMul(snellConstant, c)
        sinBn == FSqrt(FSub(One, FPow2(cosBn)))
        deltaZ == FSub(z1, z0)
        deltaTravelTime == FDiv(deltaZ, FMul(c, sinBn))
    IN  [deltaZ |-> deltaZ,
         deltaTravelTime |-> deltaTravelTime,
         deltaR |-> FMul(FMul(cosBn, deltaTravelTime), c)]

lastLayerPropagation(lastLayerTraveTime, c_lastLayer, snellConstant) ==
    LET cosBn == FMul(snellConstant, c_lastLayer)
        sinBn == FSqrt(FSub(One, FPow2(cosBn)))
    IN  [deltaR |-> FMul(FMul(c_lastLayer, lastLayerTraveTime), cosBn),
         deltaZ |-> FMul(FMul(c_lastLayer, lastLayerTraveTime), sinBn)]

constantGradientRayTracing(c0, c1, gradient, snellConstant) ==
    LET cosBnm1 == FMul(snellConstant, c0)
        cosBn == FMul(snellConstant, c1)
        sinBnm1 == FSqrt(FSub(One, FPow2(cosBnm1)))
        sinBn == FSqrt(FSub(One, FPow2(cosBn)))
        radiusOfCurvature == FDiv(One, FMul(snellConstant, gradient))
    IN  [deltaTravelTime |->
             FAbs(FMul(FDiv(One, FAbs(gradient)),
                       FLog(FMul(FDiv(c1, c0),
                                 FDiv(FAdd(One, sinBnm1), FAdd(One, sinBn)))))),
         deltaZ |-> FMul(radiusOfCurvature, FSub(cosBn, cosBnm1)),
         deltaR |-> FMul(radiusOfCurvature, FSub(sinBnm1, sinBn))]

\* the gradient without the test for samples at the same depth
soundSpeedGradient_Unchecked(z0, c0, z1, c1) ==
    [throws |-> FALSE, what |-> "", z0 |-> z0, z1 |-> z1,
     value |-> FDiv(FSub(c1, c0), FSub(z1, z0))]

\* throws std::invalid_argument, its message carrying z0 and z1, or returns
soundSpeedGradient(z0, c0, z1, c1) ==
    IF FEq(z1, z0)
    THEN [throws |-> TRUE, what |-> "invalid_argument", z0 |-> z0, z1 |-> z1,
          value |-> NaN]
    ELSE [throws |-> FALSE, what |-> "", z0 |-> z0, z1 |-> z1,
          value |-> FDiv(FSub(c1, c0), FSub(z1, z0))]

\* ------------------------------------------------------------------------
\* Launch vector
\* ------------------------------------------------------------------------

\* an angle is held by its sine: asin(z), NaN outside [-1, 1]
Asin(z) == [sin |-> IF FLe(FNeg(One), z) /\ FLe(z, One) THEN z ELSE NaN]

\* cos(asin(z)) = sqrt(1 - z^2)
Cos(angle) == FSqrt(FSub(One, FPow2(angle.sin)))

\* from the launch vector in the navigation frame (NED) on
launchVectorParameters(launchVectorNav) ==
    LET vNorm == FSqrt(FAdd(FPow2(launchVectorNav[1]), FPow2(launchVectorNav[2])))
    IN  [sinAz |-> IF FLt(Zero, vNorm) THEN FDiv(launchVectorNav[1], vNorm) ELSE Zero,
         cosAz |-> IF FLt(Zero, vNorm) THEN FDiv(launchVectorNav[2], vNorm) ELSE Zero,
         beta0 |-> Asin(launchVectorNav[3])]

\* ------------------------------------------------------------------------
\* Sound velocity profile: depths and speeds, sample i of the source at i+1
\* ------------------------------------------------------------------------

getSize(svp) == Len(svp.depths)

\* the gradient of each interval between two adjacent samples
getSoundSpeedGradient(svp) ==
    [i \in 1..(getSize(svp) - 1) |->
        FDiv(FSub(svp.speeds[i + 1], svp.speeds[i]),
             FSub(svp.depths[i + 1], svp.depths[i]))]

\* the index of the first sample at or below depth, getSize when there is none
getLayerIndexForDepth(svp, depth) ==
    IF \E i \in 1..getSize(svp) : FLe(depth, svp.depths[i])
    THEN (CHOOSE i \in 1..getSize(svp) :
              /\ FLe(depth, svp.depths[i])
              /\ \A j \in 1..(i - 1) : ~FLe(depth, svp.depths[j])) - 1
    ELSE getSize(svp)

\* element i of an Eigen vector; g is what a read out of its bounds yields
Coeff(vec, i, g) == IF i + 1 \in DOMAIN vec THEN vec[i + 1] ELSE g

InBounds(vec, i) == i + 1 \in DOMAIN vec

\* ------------------------------------------------------------------------
\* State
\* ------------------------------------------------------------------------

VARIABLES
    svp,              \* the sound velocity profile: [depths, speeds]
    ping,             \* [twoWayTravelTime, surfaceSoundSpeed, transducerDepth]
    launchVectorNav,  \* imu2nav * (boresightMatrix * launchVectorSonar)
    rt,               \* the invocation of rayTrace: its locals and its output
    prt               \* the invocation of planarRayTrace: likewise

vars == <<svp, ping, launchVectorNav, rt, prt>>

\* ------------------------------------------------------------------------
\* Inputs
\* ------------------------------------------------------------------------

SampleDepths == {D(1), D(3), D(4), D(6)}

SampleSpeeds == {D(5), D(6)}

TransducerDepths == {D(0), D(1), D(2), D(7)}

SurfaceSoundSpeeds == {D(4), D(5)}

\* unit vectors: grazing angles of 53, 37 and 0 degrees
LaunchVectors ==
    {<<Frac(12, 25), Frac(9, 25), Frac(4, 5)>>,
     <<Zero, Frac(4, 5), Frac(3, 5)>>,
     <<Frac(3, 5), Frac(4, 5), Zero>>}

TwoWayTravelTimes == {F(k * (Scale \div 2)) : k \in 0..MaxTimeSteps}

StrictlyIncreasing(depths) ==
    \A i \in 1..(Len(depths) - 1) : FLt(depths[i], depths[i + 1])

Profiles ==
    UNION {{[depths |-> d, speeds |-> c] :
                d \in {x \in [1..n -> SampleDepths] : StrictlyIncreasing(x)},
                c \in [1..n -> SampleSpeeds]} : n \in 1..MaxSamples}

\* what a read outside a vector's bounds may yield
Garbage == {Zero, NaN}

\* what the caller's vectors may hold when planarRayTrace is entered: these,
\* or nothing
EntryLayerRays == <<<<D(1), D(1)>>>>

EntryLayerTravelTimes == <<D(1)>>

\* ------------------------------------------------------------------------
\* The locals of an invocation, before its first statement
\* ------------------------------------------------------------------------

NoError == [what |-> "", z0 |-> Zero, z1 |-> Zero]

Locals ==
    [pc |-> "Entry",
     sinAz |-> Zero, cosAz |-> Zero, beta0 |-> Asin(Zero),
     currentLayerRaytraceTime |-> Zero,
     currentLayerDeltaZ |-> Zero,
     currentLayerDeltaR |-> Zero,
     cumulativeRaytraceTime |-> Zero,
     cumulativeRayX |-> Zero,
     cumulativeRayZ |-> Zero,
     oneWayTravelTime |-> Zero,
     snellConstant |-> Zero,
     svpCutoffIndex |-> 0,
     gradientTransducerSvp |-> Zero,
     currentLayerIndex |-> 0,
     c_lastLayer |-> Zero,
     lastLayerTraveTime |-> Zero,
     dxf |-> Zero, dzf |-> Zero,
     raytracedPing |-> <<>>,         \* <<>>: not written by this invocation
     layerRays |-> <<>>,
     layerTravelTimes |-> <<>>,
     exception |-> NoError,
     \* history, not state of the program
     entryLayerRays |-> <<>>,        \* layerRays when the function was entered
     entryLayerTravelTimes |-> <<>>,
     steps |-> <<>>,                 \* the steps computed, in order
     iterations |-> 0,               \* bodies of the while loop executed
     sqrtSpeeds |-> {},              \* the speeds given to a layer formula
     accessOK |-> TRUE]              \* no vector was read outside its bounds

\* a computed step: which (-1: transducer layer, i: layer i), what it gave,
\* the cumulative time before it, whether it was committed
Step(which, r, before, committed) ==
    [which |-> which, deltaTravelTime |-> r.deltaTravelTime,
     deltaZ |-> r.deltaZ, deltaR |-> r.deltaR,
     before |-> before, committed |-> committed]

Init ==
    /\ svp \in Profiles
    /\ ping \in [twoWayTravelTime : TwoWayTravelTimes,
                 surfaceSoundSpeed : SurfaceSoundSpeeds,
                 transducerDepth : TransducerDepths]
    /\ launchVectorNav \in LaunchVectors
    /\ rt = Locals
    /\ prt = Locals

\* ------------------------------------------------------------------------
\* Raytracing::rayTrace
\* ------------------------------------------------------------------------

\* the declarations, up to the test of svpCutoffIndex
rayTrace_Entry(s) ==
    LET lp == launchVectorParameters(launchVectorNav)
        cutoff == getLayerIndexForDepth(svp, ping.transducerDepth)
    IN  [s EXCEPT
            !.sinAz = lp.sinAz, !.cosAz = lp.cosAz, !.beta0 = lp.beta0,
            !.currentLayerRaytraceTime = Zero,
            !.currentLayerDeltaZ = Zero,
            !.currentLayerDeltaR = Zero,
            !.cumulativeRaytraceTime = Zero,
            !.cumulativeRayX = Zero,
            !.cumulativeRayZ = Zero,
            !.oneWayTravelTime = FDiv(ping.twoWayTravelTime, D(2)),
            !.snellConstant = FDiv(Cos(lp.beta0), ping.surfaceSoundSpeed),
            !.svpCutoffIndex = cutoff,
            \* transducer below the deepest sample: nothing before the loop
            !.currentLayerIndex = IF cutoff < getSize(svp) THEN 0 ELSE cutoff,
            !.pc = IF cutoff < getSize(svp) THEN "TransducerLayer" ELSE "LayerWalk"]

\* the step is committed only when it ends before the one way travel time
rayTrace_TransducerLayerFits_Strict(s, deltaTravelTime) ==
    FLt(FAdd(s.cumulativeRaytraceTime, deltaTravelTime), s.oneWayTravelTime)

\* the step fits in what is left of the one way travel time
rayTrace_TransducerLayerFits(s, deltaTravelTime) ==
    FLe(FAdd(s.cumulativeRaytraceTime, deltaTravelTime), s.oneWayTravelTime)

\* ray tracing in the first layer, using the sound speed at the transducer
rayTrace_TransducerLayer(s) ==
    LET z1 == Coeff(svp.depths, s.svpCutoffIndex, Zero)
        c1 == Coeff(svp.speeds, s.svpCutoffIndex, Zero)
        gr == soundSpeedGradient(ping.transducerDepth, ping.surfaceSoundSpeed, z1, c1)
        celerity == BelowGradientEpsilon(gr.value)
        r == IF celerity
             THEN constantCelerityRayTracing(ping.transducerDepth, z1,
                      ping.surfaceSoundSpeed, s.snellConstant)
             ELSE constantGradientRayTracing(ping.surfaceSoundSpeed, c1,
                      gr.value, s.snellConstant)
        fits == rayTrace_TransducerLayerFits(s, r.deltaTravelTime)
    IN  IF gr.throws
        THEN [s EXCEPT !.pc = "Error",
                       !.exception = [what |-> gr.what, z0 |-> gr.z0, z1 |-> gr.z1]]
        ELSE [s EXCEPT
                !.gradientTransducerSvp = gr.value,
                !.currentLayerDeltaZ = r.deltaZ,
                !.currentLayerDeltaR = r.deltaR,
                !.currentLayerRaytraceTime = r.deltaTravelTime,
                !.cumulativeRayX = IF fits THEN FAdd(@, r.deltaR) ELSE @,
                !.cumulativeRayZ = IF fits THEN FAdd(@, r.deltaZ) ELSE @,
                !.cumulativeRaytraceTime =
                    IF fits THEN FAdd(@, r.deltaTravelTime) ELSE @,
                !.currentLayerIndex = s.svpCutoffIndex,
                !.pc = "LayerWalk",
                !.steps = Append(@, Step(-1, r, s.cumulativeRaytraceTime, fits)),
                !.sqrtSpeeds = @ \cup (IF celerity THEN {ping.surfaceSoundSpeed}
                                       ELSE {ping.surfaceSoundSpeed, c1}),
                !.accessOK = @ /\ InBounds(svp.depths, s.svpCutoffIndex)
                               /\ InBounds(svp.speeds, s.svpCutoffIndex)]

\* the loop does not stop before the last layer
rayTrace_WhileCondition_ToLastLayer(s) ==
    /\ FLe(FAdd(s.cumulativeRaytraceTime, s.currentLayerRaytraceTime),
           s.oneWayTravelTime)
    /\ s.currentLayerIndex < getSize(svp)

\* the condition of the while loop
rayTrace_WhileCondition(s) ==
    /\ FLe(FAdd(s.cumulativeRaytraceTime, s.currentLayerRaytraceTime),
           s.oneWayTravelTime)
    /\ s.currentLayerIndex < getSize(svp) - 1

\* the layer's own time is left out of the test
rayTrace_LayerFits_TimeLeftOut(s, deltaTravelTime) ==
    FLe(s.cumulativeRaytraceTime, s.oneWayTravelTime)

\* the layer fits in what is left of the one way travel time
rayTrace_LayerFits(s, deltaTravelTime) ==
    FLe(FAdd(s.cumulativeRaytraceTime, deltaTravelTime), s.oneWayTravelTime)

\* the propagation across layer i, by its precomputed gradient
rayTrace_LayerStep(s, i, g) ==
    LET gradient == getSoundSpeedGradient(svp)
    IN  IF BelowGradientEpsilon(Coeff(gradient, i, g))
        THEN constantCelerityRayTracing(Coeff(svp.depths, i, g),
                 Coeff(svp.depths, i + 1, g), Coeff(svp.speeds, i, g),
                 s.snellConstant)
        ELSE constantGradientRayTracing(Coeff(svp.speeds, i, g),
                 Coeff(svp.speeds, i + 1, g), Coeff(gradient, i, g),
                 s.snellConstant)

\* one test of the loop's condition and, when it holds, one pass of its body
rayTrace_LayerWalk(s, g) ==
    LET i == s.currentLayerIndex
        gradient == getSoundSpeedGradient(svp)
        celerity == BelowGradientEpsilon(Coeff(gradient, i, g))
        r == rayTrace_LayerStep(s, i, g)
        fits == rayTrace_LayerFits(s, r.deltaTravelTime)
    IN  IF ~rayTrace_WhileCondition(s)
        THEN [s EXCEPT !.pc = "LastLayer"]
        ELSE [s EXCEPT
                !.currentLayerDeltaZ = r.deltaZ,
                !.currentLayerDeltaR = r.deltaR,
                !.currentLayerRaytraceTime = r.deltaTravelTime,
                !.currentLayerIndex = IF fits THEN @ + 1 ELSE @,
                !.cumulativeRayX = IF fits THEN FAdd(@, r.deltaR) ELSE @,
                !.cumulativeRayZ = IF fits THEN FAdd(@, r.deltaZ) ELSE @,
                !.cumulativeRaytraceTime =
                    IF fits THEN FAdd(@, r.deltaTravelTime) ELSE @,
                !.pc = IF fits THEN "LayerWalk" ELSE "LastLayer",
                !.steps = Append(@, Step(i, r, s.cumulativeRaytraceTime, fits)),
                !.iterations = @ + 1,
                !.sqrtSpeeds = @ \cup (IF celerity THEN {Coeff(svp.speeds, i, g)}
                                       ELSE {Coeff(svp.speeds, i, g),
                                             Coeff(svp.speeds, i + 1, g)}),
                !.accessOK = /\ @
                             /\ InBounds(gradient, i)
                             /\ InBounds(svp.speeds, i)
                             /\ IF celerity
                                THEN InBounds(svp.depths, i)
                                     /\ InBounds(svp.depths, i + 1)
                                ELSE InBounds(svp.speeds, i + 1)]

\* the speed is read from the profile wherever the transducer is
rayTrace_c_lastLayer_FromProfile(s, g) ==
    Coeff(svp.speeds, s.currentLayerIndex, g)

\* the local speed of the last layer propagation
rayTrace_c_lastLayer(s, g) ==
    IF s.svpCutoffIndex < getSize(svp)
    THEN Coeff(svp.speeds, s.currentLayerIndex, g)
    ELSE ping.surfaceSoundSpeed

\* last layer propagation and the output
rayTrace_LastLayer(s, g) ==
    LET c_lastLayer == rayTrace_c_lastLayer(s, g)
        lastLayerTraveTime == FSub(s.oneWayTravelTime, s.cumulativeRaytraceTime)
        f == lastLayerPropagation(lastLayerTraveTime, c_lastLayer, s.snellConstant)
        Xf == FAdd(s.cumulativeRayX, f.deltaR)
        Zf == FAdd(s.cumulativeRayZ, f.deltaZ)
    IN  [s EXCEPT
            !.c_lastLayer = c_lastLayer,
            !.lastLayerTraveTime = lastLayerTraveTime,
            !.dxf = f.deltaR, !.dzf = f.deltaZ,
            !.raytracedPing = <<FMul(Xf, s.sinAz), FMul(Xf, s.cosAz), Zf>>,
            !.pc = "Done",
            !.sqrtSpeeds = @ \cup {c_lastLayer},
            !.accessOK = @ /\ (s.svpCutoffIndex < getSize(svp)
                                  => InBounds(svp.speeds, s.currentLayerIndex))]

RayTraceEntry ==
    /\ rt.pc = "Entry"
    /\ rt' = rayTrace_Entry(rt)
    /\ UNCHANGED <<svp, ping, launchVectorNav, prt>>

RayTraceTransducerLayer ==
    /\ rt.pc = "TransducerLayer"
    /\ rt' = rayTrace_TransducerLayer(rt)
    /\ UNCHANGED <<svp, ping, launchVectorNav, prt>>

RayTraceLayerWalk ==
    /\ rt.pc = "LayerWalk"
    /\ \E g \in Garbage : rt' = rayTrace_LayerWalk(rt, g)
    /\ UNCHANGED <<svp, ping, launchVectorNav, prt>>

RayTraceLastLayer ==
    /\ rt.pc = "LastLayer"
    /\ \E g \in Garbage : rt' = rayTrace_LastLayer(rt, g)
    /\ UNCHANGED <<svp, ping, launchVectorNav, prt>>

Finished(s) == s.pc \in {"Done", "Error"}

\* ------------------------------------------------------------------------
\* Raytracing::planarRayTrace
\* ------------------------------------------------------------------------

\* the declarations, up to the test of svpCutoffIndex; the caller's vectors
\* layerRays and layerTravelTimes hold rays and times on entry
planarRayTrace_Entry(s, rays, times) ==
    LET lp == launchVectorParameters(launchVectorNav)
        cutoff == getLayerIndexForDepth(svp, ping.transducerDepth)
    IN  [s EXCEPT
            !.sinAz = lp.sinAz, !.cosAz = lp.cosAz, !.beta0 = lp.beta0,
            !.currentLayerRaytraceTime = Zero,
            !.currentLayerDeltaZ = Zero,
            !.currentLayerDeltaR = Zero,
            !.cumulativeRaytraceTime = Zero,
            !.cumulativeRayX = Zero,
            !.cumulativeRayZ = Zero,
            !.oneWayTravelTime = FDiv(ping.twoWayTravelTime, D(2)),
            !.snellConstant = FDiv(Cos(lp.beta0), ping.surfaceSoundSpeed),
            !.svpCutoffIndex = cutoff,
            !.currentLayerIndex = IF cutoff < getSize(svp) THEN 0 ELSE cutoff,
            !.pc = IF cutoff < getSize(svp) THEN "TransducerLayer" ELSE "LayerWalk",
            !.layerRays = rays, !.layerTravelTimes = times,
            !.entryLayerRays = rays, !.entryLayerTravelTimes = times]

planarRayTrace_TransducerLayerFits(s, deltaTravelTime) ==
    FLe(FAdd(s.cumulativeRaytraceTime, deltaTravelTime), s.oneWayTravelTime)

\* layerRays.push_back(layerRay) of a committed step
planarRayTrace_PushLayerRay(layerRays, deltaR, deltaZ) ==
    Append(layerRays, <<deltaR, deltaZ>>)

\* the travel time of a committed step is not pushed
planarRayTrace_PushLayerTravelTime_Dropped(layerTravelTimes, deltaTravelTime) ==
    layerTravelTimes

\* layerTravelTimes.push_back(currentLayerRaytraceTime) of a committed step
planarRayTrace_PushLayerTravelTime(layerTravelTimes, deltaTravelTime) ==
    Append(layerTravelTimes, deltaTravelTime)

planarRayTrace_TransducerLayer(s) ==
    LET z1 == Coeff(svp.depths, s.svpCutoffIndex, Zero)
        c1 == Coeff(svp.speeds, s.svpCutoffIndex, Zero)
        gr == soundSpeedGradient(ping.transducerDepth, ping.surfaceSoundSpeed, z1, c1)
        celerity == BelowGradientEpsilon(gr.value)
        r == IF celerity
             THEN constantCelerityRayTracing(ping.transducerDepth, z1,
                      ping.surfaceSoundSpeed, s.snellConstant)
             ELSE constantGradientRayTracing(ping.surfaceSoundSpeed, c1,
                      gr.value, s.snellConstant)
        fits == planarRayTrace_TransducerLayerFits(s, r.deltaTravelTime)
    IN  IF gr.throws
        THEN [s EXCEPT !.pc = "Error",
                       !.exception = [what |-> gr.what, z0 |-> gr.z0, z1 |-> gr.z1]]
        ELSE [s EXCEPT
                !.gradientTransducerSvp = gr.value,
                !.currentLayerDeltaZ = r.deltaZ,
                !.currentLayerDeltaR = r.deltaR,
                !.currentLayerRaytraceTime = r.deltaTravelTime,
                !.cumulativeRayX = IF fits THEN FAdd(@, r.deltaR) ELSE @,
                !.cumulativeRayZ = IF fits THEN FAdd(@, r.deltaZ) ELSE @,
                !.cumulativeRaytraceTime =
                    IF fits THEN FAdd(@, r.deltaTravelTime) ELSE @,
                !.layerRays =
                    IF fits THEN planarRayTrace_PushLayerRay(@, r.deltaR, r.deltaZ)
                    ELSE @,
                !.layerTravelTimes =
                    IF fits THEN planarRayTrace_PushLayerTravelTime(@, r.deltaTravelTime)
                    ELSE @,
                !.currentLayerIndex = s.svpCutoffIndex,
                !.pc = "LayerWalk",
                !.steps = Append(@, Step(-1, r, s.cumulativeRaytraceTime, fits)),
                !.sqrtSpeeds = @ \cup (IF celerity THEN {ping.surfaceSoundSpeed}
                                       ELSE {ping.surfaceSoundSpeed, c1}),
                !.accessOK = @ /\ InBounds(svp.depths, s.svpCutoffIndex)
                               /\ InBounds(svp.speeds, s.svpCutoffIndex)]

planarRayTrace_WhileCondition(s) ==
    /\ FLe(FAdd(s.cumulativeRaytraceTime, s.currentLayerRaytraceTime),
           s.oneWayTravelTime)
    /\ s.currentLayerIndex < getSize(svp) - 1

\* the layer is committed only when it ends before the one way travel time
planarRayTrace_LayerFits_Strict(s, deltaTravelTime) ==
    FLt(FAdd(s.cumulativeRaytraceTime, deltaTravelTime), s.oneWayTravelTime)

\* the layer fits in what is left of the one way travel time
planarRayTrace_LayerFits(s, deltaTravelTime) ==
    FLe(FAdd(s.cumulativeRaytraceTime, deltaTravelTime), s.oneWayTravelTime)

\* the propagation across layer i, by its precomputed gradient
planarRayTrace_LayerStep(s, i, g) ==
    LET gradient == getSoundSpeedGradient(svp)
    IN  IF BelowGradientEpsilon(Coeff(gradient, i, g))
        THEN constantCelerityRayTracing(Coeff(svp.depths, i, g),
                 Coeff(svp.depths, i + 1, g), Coeff(svp.speeds, i, g),
                 s.snellConstant)
        ELSE constantGradientRayTracing(Coeff(svp.speeds, i, g),
                 Coeff(svp.speeds, i + 1, g), Coeff(gradient, i, g),
                 s.snellConstant)

planarRayTrace_LayerWalk(s, g) ==
    LET i == s.currentLayerIndex
        gradient == getSoundSpeedGradient(svp)
        celerity == BelowGradientEpsilon(Coeff(gradient, i, g))
        r == planarRayTrace_LayerStep(s, i, g)
        fits == planarRayTrace_LayerFits(s, r.deltaTravelTime)
    IN  IF ~planarRayTrace_WhileCondition(s)
        THEN [s EXCEPT !.pc = "LastLayer"]
        ELSE [s EXCEPT
                !.currentLayerDeltaZ = r.deltaZ,
                !.currentLayerDeltaR = r.deltaR,
                !.currentLayerRaytraceTime = r.deltaTravelTime,
                !.currentLayerIndex = IF fits THEN @ + 1 ELSE @,
                !.cumulativeRayX = IF fits THEN FAdd(@, r.deltaR) ELSE @,
                !.cumulativeRayZ = IF fits THEN FAdd(@, r.deltaZ) ELSE @,
                !.cumulativeRaytraceTime =
                    IF fits THEN FAdd(@, r.deltaTravelTime) ELSE @,
                !.layerRays =
                    IF fits THEN planarRayTrace_PushLayerRay(@, r.deltaR, r.deltaZ)
                    ELSE @,
                !.layerTravelTimes =
                    IF fits THEN planarRayTrace_PushLayerTravelTime(@, r.deltaTravelTime)
                    ELSE @,
                !.pc = IF fits THEN "LayerWalk" ELSE "LastLayer",
                !.steps = Append(@, Step(i, r, s.cumulativeRaytraceTime, fits)),
                !.iterations = @ + 1,
                !.sqrtSpeeds = @ \cup (IF celerity THEN {Coeff(svp.speeds, i, g)}
                                       ELSE {Coeff(svp.speeds, i, g),
                                             Coeff(svp.speeds, i + 1, g)}),
                !.accessOK = /\ @
                             /\ InBounds(gradient, i)
                             /\ InBounds(svp.speeds, i)
                             /\ IF celerity
                                THEN InBounds(svp.depths, i)
                                     /\ InBounds(svp.depths, i + 1)
                                ELSE InBounds(svp.speeds, i + 1)]

planarRayTrace_c_lastLayer(s, g) ==
    IF s.svpCutoffIndex < getSize(svp)
    THEN Coeff(svp.speeds, s.currentLayerIndex, g)
    ELSE ping.surfaceSoundSpeed

\* last layer propagation, its ray and travel time pushed, and the output
planarRayTrace_LastLayer(s, g) ==
    LET c_lastLayer == planarRayTrace_c_lastLayer(s, g)
        lastLayerTraveTime == FSub(s.oneWayTravelTime, s.cumulativeRaytraceTime)
        f == lastLayerPropagation(lastLayerTraveTime, c_lastLayer, s.snellConstant)
        Xf == FAdd(s.cumulativeRayX, f.deltaR)
        Zf == FAdd(s.cumulativeRayZ, f.deltaZ)
    IN  [s EXCEPT
            !.c_lastLayer = c_lastLayer,
            !.lastLayerTraveTime = lastLayerTraveTime,
            !.dxf = f.deltaR, !.dzf = f.deltaZ,
            !.layerRays = Append(@, <<f.deltaR, f.deltaZ>>),
            !.layerTravelTimes = Append(@, lastLayerTraveTime),
            !.raytracedPing = <<Xf, Zf>>,
            !.pc = "Done",
            !.sqrtSpeeds = @ \cup {c_lastLayer},
            !.accessOK = @ /\ (s.svpCutoffIndex < getSize(svp)
                                  => InBounds(svp.speeds, s.currentLayerIndex))]

\* the caller traces the ping in the plane once rayTrace has returned or thrown
PlanarRayTraceEntry ==
    /\ Finished(rt)
    /\ prt.pc = "Entry"
    /\ \E n \in {0, 1} :
          prt' = planarRayTrace_Entry(prt, SubSeq(EntryLayerRays, 1, n),
                                      SubSeq(EntryLayerTravelTimes, 1, n))
    /\ UNCHANGED <<svp, ping, launchVectorNav, rt>>

PlanarRayTraceTransducerLayer ==
    /\ prt.pc = "TransducerLayer"
    /\ prt' = planarRayTrace_TransducerLayer(prt)
    /\ UNCHANGED <<svp, ping, launchVectorNav, rt>>

PlanarRayTraceLayerWalk ==
    /\ prt.pc = "LayerWalk"
    /\ \E g \in Garbage : prt' = planarRayTrace_LayerWalk(prt, g)
    /\ UNCHANGED <<svp, ping, launchVectorNav, rt>>

PlanarRayTraceLastLayer ==
    /\ prt.pc = "LastLayer"
    /\ \E g \in Garbage : prt' = planarRayTrace_LastLayer(prt, g)
    /\ UNCHANGED <<svp, ping, launchVectorNav, rt>>

Next ==
    \/ RayTraceEntry
    \/ RayTraceTransducerLayer
    \/ RayTraceLayerWalk
    \/ RayTraceLastLayer
    \/ PlanarRayTraceEntry
    \/ PlanarRayTraceTransducerLayer
    \/ PlanarRayTraceLayerWalk
    \/ PlanarRayTraceLastLayer

Spec == Init /\ [][Next]_vars

\* ------------------------------------------------------------------------
\* Properties
\* ------------------------------------------------------------------------

\* the two invocations
Invocations == {rt, prt}

Started(s) == s.pc # "Entry"

\* the transducer is not below the deepest sample
WithinProfile(s) == s.svpCutoffIndex < getSize(svp)

CommittedSteps(s) == SelectSeq(s.steps, LAMBDA x : x.committed)

RECURSIVE FSum(_)
\* the sum of a sequence of doubles, added first to last from 0
FSum(seq) ==
    IF seq = <<>> THEN Zero
    ELSE FAdd(FSum(SubSeq(seq, 1, Len(seq) - 1)), seq[Len(seq)])

StepTimes(steps) == [i \in 1..Len(steps) |-> steps[i].deltaTravelTime]

StepRays(steps) == [i \in 1..Len(steps) |-> <<steps[i].deltaR, steps[i].deltaZ>>]

\* what this invocation of planarRayTrace appended to the caller's vectors
AppendedRays(s) == SubSeq(s.layerRays, Len(s.entryLayerRays) + 1, Len(s.layerRays))

AppendedTravelTimes(s) ==
    SubSeq(s.layerTravelTimes, Len(s.entryLayerTravelTimes) + 1,
           Len(s.layerTravelTimes))

\* the step's time added to the cumulative time is the target exactly
LandsOnTarget(s, step) ==
    FEq(FAdd(step.before, step.deltaTravelTime), s.oneWayTravelTime)

\* C1: time conservation. The cumulative time is the sum of the committed
\* steps' times and never exceeds the one way travel time; when a trace
\* completes, the remaining time is not negative, the committed times plus the
\* remaining time are the one way travel time, and so are the travel times
\* planarRayTrace appended.
C1_TimeConservation ==
    /\ \A s \in Invocations :
          /\ Started(s) =>
                /\ FEq(s.cumulativeRaytraceTime, FSum(StepTimes(CommittedSteps(s))))
                /\ FLe(s.cumulativeRaytraceTime, s.oneWayTravelTime)
          /\ s.pc = "Done" =>
                /\ FLe(Zero, s.lastLayerTraveTime)
                /\ FEq(FAdd(FSum(StepTimes(CommittedSteps(s))), s.lastLayerTraveTime),
                       s.oneWayTravelTime)
    /\ prt.pc = "Done" =>
          FEq(FSum(AppendedTravelTimes(prt)), prt.oneWayTravelTime)

\* a completed planar trace with two committed steps and time left over
C1_Witness ==
    /\ prt.pc = "Done"
    /\ Len(CommittedSteps(prt)) >= 2
    /\ FLt(Zero, prt.lastLayerTraveTime)
    /\ rt.pc = "Done"
    /\ Len(CommittedSteps(rt)) >= 2

\* C2: with the transducer not deeper than the last sample of a profile of
\* strictly increasing depths, rayTrace completes with a displacement and does
\* not end in a domain error.
C2_CompletesWithinProfile ==
    (Finished(rt) /\ FLe(ping.transducerDepth, svp.depths[getSize(svp)]))
        => (rt.pc = "Done" /\ rt.raytracedPing # <<>>)

\* C3: when the lookup returns an index that is not below the profile's size,
\* no step is computed or committed, the cumulative values stay 0, no error is
\* raised, the remaining time is the whole one way travel time, the local speed
\* is the surface sound speed, and planarRayTrace appends exactly one segment.
C3_TransducerBelowProfile ==
    /\ \A s \in Invocations :
          (Started(s) /\ ~WithinProfile(s)) =>
              /\ s.pc \in {"LayerWalk", "LastLayer", "Done"}
              /\ s.steps = <<>>
              /\ s.iterations = 0
              /\ s.cumulativeRaytraceTime = Zero
              /\ s.cumulativeRayX = Zero
              /\ s.cumulativeRayZ = Zero
              /\ s.pc = "Done" =>
                    /\ s.lastLayerTraveTime = s.oneWayTravelTime
                    /\ s.c_lastLayer = ping.surfaceSoundSpeed
                    /\ s.raytracedPing # <<>>
    /\ (Started(prt) /\ ~WithinProfile(prt)) =>
          /\ Len(prt.layerRays) =
                Len(prt.entryLayerRays) + (IF prt.pc = "Done" THEN 1 ELSE 0)
          /\ Len(prt.layerTravelTimes) =
                Len(prt.entryLayerTravelTimes) + (IF prt.pc = "Done" THEN 1 ELSE 0)

\* both traces of a transducer below the profile are done, time was left
C3_Witness ==
    /\ rt.pc = "Done" /\ ~WithinProfile(rt)
    /\ prt.pc = "Done" /\ ~WithinProfile(prt)
    /\ FLt(Zero, rt.oneWayTravelTime)
    /\ Len(prt.layerRays) = 1

\* C4: on the same inputs rayTrace and planarRayTrace take the same commit
\* decisions and end alike; the vertical component of the 3D result is the
\* depth of the 2D one and its horizontal pair is (Xf*sinAz, Xf*cosAz) of the
\* 2D range Xf.
C4_SameTraceInBothModes ==
    (Finished(rt) /\ Finished(prt)) =>
        /\ rt.pc = prt.pc
        /\ rt.exception = prt.exception
        /\ rt.svpCutoffIndex = prt.svpCutoffIndex
        /\ rt.steps = prt.steps
        /\ rt.currentLayerIndex = prt.currentLayerIndex
        /\ rt.lastLayerTraveTime = prt.lastLayerTraveTime
        /\ rt.c_lastLayer = prt.c_lastLayer
        /\ rt.pc = "Done" =>
              /\ rt.raytracedPing[3] = prt.raytracedPing[2]
              /\ rt.raytracedPing[1] = FMul(prt.raytracedPing[1], rt.sinAz)
              /\ rt.raytracedPing[2] = FMul(prt.raytracedPing[1], rt.cosAz)

\* both are done after a committed layer and an overshooting one, the azimuth
\* having a sine and a cosine
C4_Witness ==
    /\ rt.pc = "Done" /\ prt.pc = "Done"
    /\ \E i \in DOMAIN prt.steps : prt.steps[i].which >= 0 /\ prt.steps[i].committed
    /\ \E i \in DOMAIN prt.steps : ~prt.steps[i].committed
    /\ FLt(Zero, rt.sinAz) /\ FLt(Zero, rt.cosAz)
    /\ FLt(Zero, prt.raytracedPing[1])

\* the square root of a layer formula is taken of a negative number
OutOfDomain(s, c) == FLt(One, FMul(s.snellConstant, c))

\* C5: a trace in which snellConstant*c > 1 for the speed c of a step ends in
\* an error; it does not return a displacement.
C5_DomainViolationSurfaced ==
    \A s \in Invocations :
        s.pc = "Done" => \A c \in s.sqrtSpeeds : ~OutOfDomain(s, c)

\* C6: the gradient of the transducer layer ends in invalid_argument, carrying
\* both depths, exactly when the two depths are equal, and is otherwise the
\* finite (c1 - c0)/(z1 - z0); a trace in which it fails has committed nothing
\* and written no output.
C6_SoundSpeedGradient ==
    \A s \in Invocations :
        LET z0 == ping.transducerDepth
            c0 == ping.surfaceSoundSpeed
            z1 == svp.depths[s.svpCutoffIndex + 1]
            c1 == svp.speeds[s.svpCutoffIndex + 1]
        IN  /\ s.pc = "Error" => (WithinProfile(s) /\ s.iterations = 0)
            /\ (s.pc \in {"LayerWalk", "LastLayer", "Done", "Error"} /\ WithinProfile(s)) =>
                  /\ s.pc = "Error" <=> FEq(z1, z0)
                  /\ s.pc = "Error" =>
                        /\ s.exception = [what |-> "invalid_argument", z0 |-> z0, z1 |-> z1]
                        /\ s.steps = <<>>
                        /\ s.cumulativeRaytraceTime = Zero
                        /\ s.cumulativeRayX = Zero
                        /\ s.cumulativeRayZ = Zero
                        /\ s.raytracedPing = <<>>
                        /\ s.layerRays = s.entryLayerRays
                        /\ s.layerTravelTimes = s.entryLayerTravelTimes
                  /\ s.pc # "Error" =>
                        /\ IsFin(s.gradientTransducerSvp)
                        \* times z1 - z0 it is c1 - c0, but for the rounding
                        /\ AbsInt(FMul(s.gradientTransducerSvp, FSub(z1, z0)).v
                                  - (c1.v - c0.v)) <= AbsInt(FSub(z1, z0).v)
                        /\ s.gradientTransducerSvp = FDiv(FSub(c1, c0), FSub(z1, z0))

\* both traces failed, the planar one with rays of the caller's in its vectors
C6_Witness ==
    /\ rt.pc = "Error"
    /\ prt.pc = "Error"
    /\ prt.layerRays # <<>>

TransducerLayerCommitted(s) ==
    \E i \in DOMAIN s.steps : s.steps[i].which = -1 /\ s.steps[i].committed

\* C8: when the trace enters the last layer propagation, the transducer within
\* the profile and its step committed, the current index is the last of the
\* profile or the time of the whole layer at the current index, added to the
\* cumulative time, exceeds the one way travel time.
C8_WalkCommitsEveryLayerThatFits ==
    /\ (rt.pc = "LastLayer" /\ WithinProfile(rt) /\ TransducerLayerCommitted(rt)) =>
          \/ rt.currentLayerIndex = getSize(svp) - 1
          \/ ~FLe(FAdd(rt.cumulativeRaytraceTime,
                       rayTrace_LayerStep(rt, rt.currentLayerIndex, NaN).deltaTravelTime),
                  rt.oneWayTravelTime)
    /\ (prt.pc = "LastLayer" /\ WithinProfile(prt) /\ TransducerLayerCommitted(prt)) =>
          \/ prt.currentLayerIndex = getSize(svp) - 1
          \/ ~FLe(FAdd(prt.cumulativeRaytraceTime,
                       planarRayTrace_LayerStep(prt, prt.currentLayerIndex, NaN).deltaTravelTime),
                  prt.oneWayTravelTime)

\* the steps of the walk that were committed
CommittedLayers(s) == SelectSeq(s.steps, LAMBDA x : x.which >= 0 /\ x.committed)

\* the steps an invocation has yet to take, at most
Rank(s) ==
    CASE s.pc = "Entry" -> getSize(svp) + 4
      [] s.pc = "TransducerLayer" -> getSize(svp) + 3
      [] s.pc = "LayerWalk" ->
            2 + (IF s.currentLayerIndex < getSize(svp) - 1
                 THEN getSize(svp) - 1 - s.currentLayerIndex ELSE 0)
      [] s.pc = "LastLayer" -> 1
      [] OTHER -> 0

\* C9: no vector is read outside its bounds; within the profile the layer index
\* stays between the index of the first layer and the last index of the
\* profile, and is the former plus the layers committed; the loop's body runs
\* at most profileSize-1-startIndex times, once per committed layer and once
\* more when it breaks; every step brings the end of the trace nearer.
C9_WalkIsBounded ==
    /\ [](\A s \in Invocations :
            /\ s.accessOK
            /\ Rank(s) >= 0
            /\ s.pc \in {"LayerWalk", "LastLayer", "Done"} =>
                  /\ s.currentLayerIndex = s.svpCutoffIndex + Len(CommittedLayers(s))
                  /\ s.iterations \in {Len(CommittedLayers(s)), Len(CommittedLayers(s)) + 1}
                  /\ s.iterations > Len(CommittedLayers(s)) => s.pc # "LayerWalk"
                  /\ WithinProfile(s) =>
                        /\ s.currentLayerIndex <= getSize(svp) - 1
                        /\ s.iterations <= getSize(svp) - 1 - s.svpCutoffIndex
                  /\ ~WithinProfile(s) => s.iterations = 0)
    /\ [][Rank(rt') + Rank(prt') < Rank(rt) + Rank(prt)]_vars

\* a trace from the first sample of the largest profile walked every layer
C9_Witness ==
    /\ rt.pc = "Done"
    /\ rt.svpCutoffIndex = 0
    /\ getSize(svp) = MaxSamples
    /\ rt.iterations = getSize(svp) - 1
    /\ rt.currentLayerIndex = getSize(svp) - 1

\* C10: planarRayTrace keeps what the caller's vectors held and appends to
\* both, in the order of the commits, the ray and the time of each committed
\* step and of no other, then those of the last layer step; into empty vectors
\* that is one entry more than the committed steps, and the rays add up to the
\* range and depth returned.
C10_LayerRaysAppendOnly ==
    LET done == IF prt.pc = "Done" THEN 1 ELSE 0
        committed == CommittedSteps(prt)
        n == Len(committed)
    IN  /\ Len(prt.layerRays) = Len(prt.entryLayerRays) + n + done
        /\ Len(prt.layerTravelTimes) = Len(prt.entryLayerTravelTimes) + n + done
        /\ SubSeq(prt.layerRays, 1, Len(prt.entryLayerRays)) = prt.entryLayerRays
        /\ SubSeq(prt.layerTravelTimes, 1, Len(prt.entryLayerTravelTimes))
              = prt.entryLayerTravelTimes
        /\ SubSeq(AppendedRays(prt), 1, n) = StepRays(committed)
        /\ SubSeq(AppendedTravelTimes(prt), 1, n) = StepTimes(committed)
        /\ \A i \in 1..(n - 1) :
              committed[i].which < committed[i + 1].which
        /\ prt.pc = "Done" =>
              /\ AppendedRays(prt)[n + 1] = <<prt.dxf, prt.dzf>>
              /\ AppendedTravelTimes(prt)[n + 1] = prt.lastLayerTraveTime
              /\ prt.entryLayerRays = <<>> =>
                    /\ Len(prt.layerRays) = n + 1
                    /\ Len(prt.layerTravelTimes) = n + 1
                    /\ prt.raytracedPing =
                          <<FSum([i \in 1..(n + 1) |-> prt.layerRays[i][1]]),
                            FSum([i \in 1..(n + 1) |-> prt.layerRays[i][2]])>>

\* a planar trace into empty vectors is done: two steps committed, one not
C10_Witness ==
    /\ prt.pc = "Done"
    /\ prt.entryLayerRays = <<>>
    /\ Len(CommittedSteps(prt)) = 2
    /\ Len(prt.steps) = 3
    /\ Len(prt.layerRays) = 3
    /\ FLt(Zero, prt.raytracedPing[1])
    /\ FLt(Zero, prt.raytracedPing[2])

\* every gradient of the profile is zero or more
NonNegativeGradients ==
    \A i \in DOMAIN getSoundSpeedGradient(svp) :
        FLe(Zero, getSoundSpeedGradient(svp)[i])

\* the cumulative vertical displacement after the first k committed steps
CumulativeDepth(s, k) == FSum([i \in 1..k |-> CommittedSteps(s)[i].deltaZ])

\* the gradient of the layer a step went through
StepGradient(s, step) ==
    IF step.which = -1 THEN s.gradientTransducerSvp
    ELSE getSoundSpeedGradient(svp)[step.which + 1]

\* every committed step went through a layer of constant celerity
CommittedAtConstantCelerity(s) ==
    \A i \in DOMAIN s.steps :
        s.steps[i].committed => BelowGradientEpsilon(StepGradient(s, s.steps[i]))

\* the final depth Zf, the last coordinate of the displacement returned
Zf(s) == s.raytracedPing[Len(s.raytracedPing)]

\* the cumulative depth is the committed steps' and decreases at none of them
DepthNeverDecreases(s) ==
    /\ Started(s) => s.cumulativeRayZ = CumulativeDepth(s, Len(CommittedSteps(s)))
    /\ \A k \in 1..Len(CommittedSteps(s)) :
          FLe(CumulativeDepth(s, k - 1), CumulativeDepth(s, k))

FinalDepthNotAbove(s) == s.pc = "Done" => FLe(s.cumulativeRayZ, Zf(s))

\* after a commit the cumulative depth is that of the sample at the current
\* index below the transducer: exactly so where the committed steps are of
\* constant celerity, deltaZ being z1 - z0 there; the constant gradient formula
\* yields radiusOfCurvature*(cosBn - cosBnm1), which is z1 - z0 only up to its
\* rounding
DepthReachesSample(s) ==
    (/\ s.pc \in {"LayerWalk", "LastLayer", "Done"}
     /\ TransducerLayerCommitted(s)
     /\ CommittedAtConstantCelerity(s)) =>
        s.cumulativeRayZ = FSub(Coeff(svp.depths, s.currentLayerIndex, NaN),
                                ping.transducerDepth)

\* C11: monotonic depth. Over a profile of strictly increasing depths and
\* gradients of zero or more, the cumulative vertical displacement decreases at
\* no committed step, the final depth Zf is at least the cumulative committed
\* depth, and after each commit the cumulative vertical displacement is the
\* depth of the sample at the current layer index minus the transducer depth.
C11_MonotonicDepth ==
    (StrictlyIncreasing(svp.depths) /\ NonNegativeGradients) =>
        \A s \in Invocations :
            /\ DepthNeverDecreases(s)
            /\ FinalDepthNotAbove(s)
            /\ DepthReachesSample(s)

=============================================================================
